---------------------------- MODULE Spec2Model ----------------------------
(***************************************************************************)
(* Model of src/capture.rs: the owned backtrace snapshot.                  *)
(*                                                                         *)
(*   Backtrace::new   drives the unwinder (trace) and, per frame, the      *)
(*                    resolver (resolve), copying what they deliver into   *)
(*                    owned storage;                                       *)
(*   frames, symbols, ip, symbol_address, name, addr, filename, lineno     *)
(*                    read the snapshot back;                              *)
(*   Debug::fmt       renders the snapshot to a text sink, write by write. *)
(*                                                                         *)
(* Text is a sequence of one-character strings.  Option<T> is a sequence   *)
(* of length at most one: None is << >>, Some(v) is <<v>>.                 *)
(***************************************************************************)
EXTENDS Integers, Sequences, FiniteSets, TLC

\* ------------------------------------------------------------- bounds
\* Frames the unwinder delivers during one capture.
MaxFrames == 2
\* Symbols the resolver delivers, over all frames of one capture.
MaxSymbols == 2

\* ------------------------------------------------------------ options
None == << >>

Some(v) == <<v>>

IsSome(o) == o # << >>

\* ------------------------------------------- live (borrowed) values
\* A raw pointer (*mut c_void): an address that is never dereferenced.
Ptr(n) == [ptr |-> n]

\* A borrowed symbol name (SymbolName): a view of the resolver's bytes.
SymbolNameNew(bytes) == [bytes |-> bytes]

\* A borrowed path (&Path).
PathRef(p) == [path |-> p]

\* The frames the unwinder can deliver; it may deliver the same one twice.
\* ip and symbol_address differ.
LiveFrames ==
    { [ip |-> Ptr(1), symbol_address |-> Ptr(0)],
      [ip |-> Ptr(255), symbol_address |-> Ptr(16)] }

\* The symbols the resolver can deliver: each of the four fields is present
\* or absent independently of the others; a present address or line number
\* may be 0.
LiveSymbols ==
    [ name     : {None, Some(SymbolNameNew(<<"f">>))},
      addr     : {None, Some(Ptr(0))},
      filename : {None, Some(PathRef(<<"a">>))},
      lineno   : {None, Some(0)} ]
    \cup
    { [ name     |-> Some(SymbolNameNew(<<"m", "n">>)),
        addr     |-> Some(Ptr(16)),
        filename |-> Some(PathRef(<<"b", ".", "r", "s">>)),
        lineno   |-> Some(12) ] }

\* ---------------------------------------------------- the conversions
\* `p as usize` (lines 60, 66, 67): the pointer's address as a number.
AsUsize(p) == p.ptr

\* `u as *mut c_void` (lines 88, 92, 114): the number as a pointer again.
AsPtr(u) == Ptr(u)

\* m.as_bytes().to_vec().into_boxed_slice() (line 59): an owned copy of the
\* name's bytes.
CopyNameBytes(m) == m.bytes

\* m.to_path_buf() (line 61): an owned copy of the path.
ToPathBuf(p) == [buf |-> p.path]

\* The BacktraceSymbol built from a live symbol (lines 58-63).
OwnName(symbol) ==
    IF IsSome(symbol.name) THEN Some(CopyNameBytes(symbol.name[1])) ELSE None

OwnAddr(symbol) ==
    IF IsSome(symbol.addr) THEN Some(AsUsize(symbol.addr[1])) ELSE None

OwnFilename(symbol) ==
    IF IsSome(symbol.filename) THEN Some(ToPathBuf(symbol.filename[1])) ELSE None

\* A capture that takes line 0 for "no line".
OwnLinenoDroppingZero(symbol) ==
    IF symbol.lineno = Some(0) THEN None ELSE symbol.lineno

OwnLineno(symbol) == symbol.lineno

NewBacktraceSymbol(symbol) ==
    [ name     |-> OwnName(symbol),
      addr     |-> OwnAddr(symbol),
      filename |-> OwnFilename(symbol),
      lineno   |-> OwnLineno(symbol) ]

\* The BacktraceFrame built from a live frame and its symbols (lines 65-69).
NewBacktraceFrame(frame, syms) ==
    [ ip             |-> AsUsize(frame.ip),
      symbol_address |-> AsUsize(frame.symbol_address),
      symbols        |-> syms ]

\* The address Backtrace::new hands to the resolver (line 57).
ResolveArg(frame) == frame.ip

\* A visitor that stops the walk at a frame without symbols.
VisitorAnswerStopUnresolved(frame, syms) == syms # << >>

\* What the visitor answers the unwinder (line 70).
VisitorAnswer(frame, syms) == TRUE

\* symbols.push (line 58).
PushSymbol(vec, x) == Append(vec, x)

\* A push that keeps one frame per ip.
PushFrameDedup(vec, x) ==
    IF \E k \in 1..Len(vec) : vec[k].ip = x.ip THEN vec ELSE Append(vec, x)

\* frames.push (line 65).
PushFrame(vec, x) == Append(vec, x)

\* A symbol vector shared by all visits.
KeepSymbols(old) == old

\* The symbol vector a visit starts from (line 56).
FreshSymbols(old) == << >>

\* ---------------------------------------------------------- accessors
\* Backtrace::frames (lines 81-83).
Frames(b) == b.frames

\* BacktraceFrame::symbols (lines 103-105).
Symbols(f) == f.symbols

\* Frame::ip and Frame::symbol_address of a BacktraceFrame (lines 87-93).
FrameIp(f) == AsPtr(f.ip)

FrameSymbolAddress(f) == AsPtr(f.symbol_address)

\* The Symbol accessors of a BacktraceSymbol (lines 109-123).
SymName(s) == IF IsSome(s.name) THEN Some(SymbolNameNew(s.name[1])) ELSE None

SymAddr(s) == IF IsSome(s.addr) THEN Some(AsPtr(s.addr[1])) ELSE None

SymFilename(s) ==
    IF IsSome(s.filename) THEN Some(PathRef(s.filename[1].buf)) ELSE None

SymLineno(s) == s.lineno

\* -------------------------------------------------------------- state
VARIABLES
    pc,            \* where Backtrace::new is: "trace", "resolve", "returned"
    cur,           \* the live frame being visited
    frames,        \* the local Vec `frames` of Backtrace::new
    symbols,       \* the local Vec `symbols` of the visitor
    bt,            \* the Backtrace, once Backtrace::new has returned
    delivered,     \* log: the live frames the unwinder delivered, in order
    resolved,      \* log: per resolver call, the live symbols it delivered
    resolveCalls,  \* log: the addresses the resolver was called on
    answers,       \* log: what the visitor answered the unwinder
    usizeBytes,    \* mem::size_of::<usize>() of the target
    fpc,           \* where Debug::fmt is: "idle" when no call is running
    i,             \* fmt: the frame index of the outer enumerate()
    j,             \* fmt: the symbol index of the inner enumerate()
    pad,           \* fmt: spaces the indentation loop has written
    sink,          \* the text the sink has accepted during the current call
    writes,        \* log: writes the current call has attempted
    sinkOk,        \* log: no write of the current call has failed
    result,        \* what the last call returned: "Ok", "Err"; "none" before
    texts          \* log: the texts of the calls that returned Ok

captureVars == <<pc, cur, frames, symbols, delivered, resolved, resolveCalls,
                 answers>>

fmtVars == <<fpc, i, j, pad, sink, writes, sinkOk, result, texts>>

vars == <<captureVars, bt, usizeBytes, fmtVars>>

NoFrame == [ip |-> Ptr(0), symbol_address |-> Ptr(0)]

\* The pointer sizes of the targets considered: 32-bit and 64-bit.
TargetUsizeBytes == {4, 8}

\* No call of fmt has been made.
FmtIdle ==
    /\ fpc = "idle"
    /\ i = 0
    /\ j = 0
    /\ pad = 0
    /\ sink = << >>
    /\ writes = 0
    /\ sinkOk = TRUE
    /\ result = "none"
    /\ texts = {}

EmptyBacktrace == [frames |-> << >>]

RECURSIVE SumLen(_)
SumLen(ss) == IF ss = << >> THEN 0 ELSE Len(ss[1]) + SumLen(Tail(ss))

Init ==
    /\ pc = "trace"
    /\ cur = NoFrame
    /\ frames = << >>
    /\ symbols = << >>
    /\ bt = EmptyBacktrace
    /\ delivered = << >>
    /\ resolved = << >>
    /\ resolveCalls = << >>
    /\ answers = << >>
    /\ usizeBytes = 8
    /\ FmtIdle

\* The unwinder goes on only while every answer of the visitor was
\* "continue".
UnwinderContinues == \A k \in 1..Len(answers) : answers[k]

\* The unwinder delivers a frame to the visitor, which starts a fresh symbol
\* vector and calls the resolver (lines 55-57).  The unwinder delivers only
\* while the visitor has answered "continue".
TraceDeliver(frame) ==
    /\ pc = "trace"
    /\ Len(delivered) < MaxFrames
    /\ UnwinderContinues
    /\ cur' = frame
    /\ symbols' = FreshSymbols(symbols)
    /\ delivered' = Append(delivered, frame)
    /\ resolveCalls' = Append(resolveCalls, ResolveArg(frame))
    /\ resolved' = Append(resolved, << >>)
    /\ pc' = "resolve"
    /\ UNCHANGED <<frames, bt, answers, usizeBytes, fmtVars>>

\* The resolver delivers a symbol to the inner callback (lines 57-64).
ResolveDeliver(symbol) ==
    /\ pc = "resolve"
    /\ SumLen(resolved) < MaxSymbols
    /\ symbols' = PushSymbol(symbols, NewBacktraceSymbol(symbol))
    /\ resolved' = [resolved EXCEPT ![Len(resolved)] = Append(@, symbol)]
    /\ UNCHANGED <<pc, cur, frames, bt, delivered, resolveCalls, answers,
                   usizeBytes, fmtVars>>

\* The resolver returns; the visitor pushes the frame and answers the
\* unwinder (lines 65-70).
ResolveReturn ==
    /\ pc = "resolve"
    /\ frames' = PushFrame(frames, NewBacktraceFrame(cur, symbols))
    /\ answers' = Append(answers, VisitorAnswer(cur, symbols))
    /\ pc' = "trace"
    /\ UNCHANGED <<cur, symbols, bt, delivered, resolved, resolveCalls,
                   usizeBytes, fmtVars>>

\* The unwinder returns; Backtrace::new moves `frames` into the snapshot and
\* returns it (lines 71-73); its locals are gone.
TraceReturn ==
    /\ pc = "trace"
    /\ bt' = [frames |-> frames]
    /\ pc' = "returned"
    /\ cur' = NoFrame
    /\ frames' = << >>
    /\ symbols' = << >>
    /\ UNCHANGED <<delivered, resolved, resolveCalls, answers, usizeBytes,
                   fmtVars>>

Next ==
    \/ \E frame \in LiveFrames : TraceDeliver(frame)
    \/ \E symbol \in LiveSymbols : ResolveDeliver(symbol)
    \/ ResolveReturn
    \/ TraceReturn

Spec == Init /\ [][Next]_vars

\* ------------------------------------------------------------ text
Spaces(n) == [k \in 1..n |-> " "]

DecDigit(d) == <<"0", "1", "2", "3", "4", "5", "6", "7", "8", "9">>[d + 1]

HexDigit(d) ==
    <<"0", "1", "2", "3", "4", "5", "6", "7", "8", "9",
      "a", "b", "c", "d", "e", "f">>[d + 1]

\* {} of an unsigned integer: its decimal digits.
RECURSIVE Decimal(_)
Decimal(n) ==
    IF n < 10 THEN <<DecDigit(n)>>
    ELSE Decimal(n \div 10) \o <<DecDigit(n % 10)>>

\* {:x} of an unsigned integer: its lower-case hexadecimal digits.
RECURSIVE LowerHex(_)
LowerHex(n) ==
    IF n < 16 THEN <<HexDigit(n)>>
    ELSE LowerHex(n \div 16) \o <<HexDigit(n % 16)>>

\* {:<2} of the frame index (line 132): left-aligned in at least 2 columns.
FmtIndex(n) ==
    LET d == Decimal(n) IN
    IF Len(d) >= 2 THEN d ELSE d \o Spaces(2 - Len(d))

\* {:#0w$x} of the ip (line 132): "0x", then the digits zero-padded so that
\* the whole takes at least w columns.
FmtHex(n, w) ==
    LET d == LowerHex(n) IN
    <<"0", "x">> \o (IF Len(d) + 2 >= w THEN d
                     ELSE [k \in 1..(w - 2 - Len(d)) |-> "0"] \o d)

\* hex_width (line 128).
HexWidth == usizeBytes * 2 + 2

\* The header of frame number n (line 132); frame.ip() is read back as usize.
FrameHeader(n, frame) ==
    <<"f", "r", "a", "m", "e", " ", "#">> \o FmtIndex(n)
        \o <<" ", "-", " ">> \o FmtHex(AsUsize(FrameIp(frame)), HexWidth)

\* A frame without symbols printed as a bare line break.
NoInfoLineBare == <<"\n">>

\* writeln!(f, " - <no info>") (line 135).
NoInfoLine ==
    <<" ", "-", " ", "<", "n", "o", " ", "i", "n", "f", "o", ">", "\n">>

\* The spaces written before a symbol that is not the first (line 141).
IndentWidth == 7 + 2 + 3 + HexWidth

\* The text SymbolName's Display writes for a name: its bytes as text.
DisplayName(name) == name.bytes

\* Path::display (line 154): the path as text.
DisplayPath(path) == path.path

\* An entry that shows nothing for a symbol without a name.
NameEntryOmittingUnknown(symbol) ==
    IF IsSome(SymName(symbol))
    THEN <<" ", "-", " ">> \o DisplayName(SymName(symbol)[1])
    ELSE << >>

\* " - {}" of the name, or " - <unknown>" (lines 146-150).
NameEntry(symbol) ==
    IF IsSome(SymName(symbol))
    THEN <<" ", "-", " ">> \o DisplayName(SymName(symbol)[1])
    ELSE <<" ", "-", " ", "<", "u", "n", "k", "n", "o", "w", "n", ">">>

\* A formatter that never writes the file and line.
HasFileLineNever(symbol) == FALSE

\* Both `if let`s of lines 151-152 match.
HasFileLine(symbol) ==
    IsSome(SymFilename(symbol)) /\ IsSome(SymLineno(symbol))

\* "\n{:13}{:4$}@ {}:{}" (lines 153-154), for a symbol with file and line.
FileLineText(symbol) ==
    <<"\n">> \o Spaces(13) \o Spaces(HexWidth) \o <<"@", " ">>
        \o DisplayPath(SymFilename(symbol)[1]) \o <<":">>
        \o Decimal(SymLineno(symbol)[1])

\* writeln!(f, "") (line 157).
EndOfLine == <<"\n">>

\* An enumerate() that resumes where the last call stopped.
EnumerateResume == i

\* enumerate() counts from 0 (line 130).
EnumerateStart == 0

\* A try! that swallows the error.
TryReturnsNever(ok) == FALSE

\* try! (lines 132-157): fmt returns the error when the write failed.
TryReturns(ok) == ~ok

\* ------------------------------------------------------ Debug::fmt
\* One write!: the sink accepts the text or fails; on failure try! returns
\* the error from fmt, otherwise fmt goes on at `nextpc` with the loop
\* variables as given.
WriteThen(text, ok, nextpc, nexti, nextj, nextpad) ==
    /\ writes' = writes + 1
    /\ sink' = IF ok THEN sink \o text ELSE sink
    /\ sinkOk' = (sinkOk /\ ok)
    /\ IF TryReturns(ok)
       THEN /\ fpc' = "idle"
            /\ result' = "Err"
            /\ UNCHANGED <<i, j, pad>>
       ELSE /\ fpc' = nextpc
            /\ i' = nexti
            /\ j' = nextj
            /\ pad' = nextpad
            /\ UNCHANGED result
    /\ UNCHANGED <<captureVars, bt, usizeBytes, texts>>

\* fmt is called on the snapshot with a sink (lines 127-130).
FmtCall ==
    /\ pc = "returned"
    /\ fpc = "idle"
    /\ fpc' = "frame"
    /\ i' = EnumerateStart
    /\ j' = 0
    /\ pad' = 0
    /\ sink' = << >>
    /\ writes' = 0
    /\ sinkOk' = TRUE
    /\ result' = "running"
    /\ UNCHANGED <<captureVars, bt, usizeBytes, texts>>

\* The header of the next frame is written (lines 130-132).
FmtHeader ==
    /\ fpc = "frame"
    /\ i < Len(Frames(bt))
    /\ \E ok \in BOOLEAN :
          LET frame == Frames(bt)[i + 1] IN
          WriteThen(FrameHeader(i, frame), ok,
                    IF Len(Symbols(frame)) = 0 THEN "noinfo" ELSE "name",
                    i, 0, 0)

\* A frame without symbols: the placeholder, then the next frame
\* (lines 134-137).
FmtNoInfo ==
    /\ fpc = "noinfo"
    /\ \E ok \in BOOLEAN : WriteThen(NoInfoLine, ok, "frame", i + 1, 0, 0)

\* One space of the indentation of a symbol that is not the first
\* (lines 140-144).
FmtIndent ==
    /\ fpc = "indent"
    /\ \E ok \in BOOLEAN :
          WriteThen(<<" ">>, ok,
                    IF pad + 1 < IndentWidth THEN "indent" ELSE "name",
                    i, j, pad + 1)

\* The entry of a symbol (lines 146-150).
FmtName ==
    /\ fpc = "name"
    /\ \E ok \in BOOLEAN :
          LET symbol == Symbols(Frames(bt)[i + 1])[j + 1] IN
          WriteThen(NameEntry(symbol), ok,
                    IF HasFileLine(symbol) THEN "fileline" ELSE "endline",
                    i, j, pad)

\* The file and line of a symbol that has both (lines 151-156).
FmtFileLine ==
    /\ fpc = "fileline"
    /\ \E ok \in BOOLEAN :
          LET symbol == Symbols(Frames(bt)[i + 1])[j + 1] IN
          WriteThen(FileLineText(symbol), ok, "endline", i, j, pad)

\* The line break that ends a symbol; then the next symbol of the frame, or
\* the next frame (lines 157-159).
FmtEndLine ==
    /\ fpc = "endline"
    /\ \E ok \in BOOLEAN :
          IF j + 1 < Len(Symbols(Frames(bt)[i + 1]))
          THEN WriteThen(EndOfLine, ok, "indent", i, j + 1, 0)
          ELSE WriteThen(EndOfLine, ok, "frame", i + 1, 0, 0)

\* The frames are exhausted: fmt returns Ok(()) (line 161).
FmtReturn ==
    /\ fpc = "frame"
    /\ i >= Len(Frames(bt))
    /\ fpc' = "idle"
    /\ result' = "Ok"
    /\ texts' = texts \cup {sink}
    /\ UNCHANGED <<captureVars, bt, usizeBytes, i, j, pad, sink, writes,
                   sinkOk>>

NextFmt ==
    \/ FmtCall
    \/ FmtHeader
    \/ FmtNoInfo
    \/ FmtIndent
    \/ FmtName
    \/ FmtFileLine
    \/ FmtEndLine
    \/ FmtReturn

\* ------------------------------------------- snapshots to be formatted
\* The symbols of the snapshots that are formatted: fmt does not read addr.
FmtLiveSymbols == {s \in LiveSymbols : s.addr = None}

\* The frame of the snapshots that are formatted.
FmtLiveFrames == {[ip |-> Ptr(255), symbol_address |-> Ptr(16)]}

\* The sequences of n symbols the resolver can deliver for one frame.
RECURSIVE SymbolRuns(_)
SymbolRuns(n) ==
    IF n = 0 THEN { << >> }
    ELSE { Append(r, s) : r \in SymbolRuns(n - 1), s \in FmtLiveSymbols }

\* The walks of at most n frames and at most `budget` symbols in all: each
\* entry is a delivered frame with the symbols resolved for it.
RECURSIVE LiveStacks(_, _)
LiveStacks(n, budget) ==
    { << >> } \cup
    (IF n = 0 THEN {}
     ELSE UNION { { <<[frame |-> f, syms |-> r]>> \o rest :
                      f \in FmtLiveFrames,
                      r \in SymbolRuns(m),
                      rest \in LiveStacks(n - 1, budget - m) } :
                  m \in 0..budget })

RECURSIVE OwnSymbols(_)
OwnSymbols(syms) ==
    IF syms = << >> THEN << >>
    ELSE <<NewBacktraceSymbol(syms[1])>> \o OwnSymbols(Tail(syms))

OwnFrames(stack) ==
    [k \in 1..Len(stack) |->
        NewBacktraceFrame(stack[k].frame, OwnSymbols(stack[k].syms))] \o << >>

\* The state Backtrace::new returns in after the unwinder walked `stack`.
Captured(stack) ==
    /\ pc = "returned"
    /\ cur = NoFrame
    /\ frames = << >>
    /\ symbols = << >>
    /\ bt = [frames |-> OwnFrames(stack)]
    /\ delivered = [k \in 1..Len(stack) |-> stack[k].frame] \o << >>
    /\ resolved = [k \in 1..Len(stack) |-> stack[k].syms] \o << >>
    /\ resolveCalls =
          [k \in 1..Len(stack) |-> ResolveArg(stack[k].frame)] \o << >>
    /\ answers = [k \in 1..Len(stack) |-> TRUE] \o << >>

\* A snapshot has been captured and nothing has been formatted yet.
InitFmt ==
    /\ \E stack \in LiveStacks(MaxFrames, MaxSymbols) : Captured(stack)
    /\ usizeBytes = 8
    /\ FmtIdle

SpecFmt == InitFmt /\ [][NextFmt]_vars

\* ------------------------------------------------------ deep stacks
\* The frames without symbols that precede the last frame of a deep stack.
DeepFrames == 100

\* The symbols of the last frame of a deep stack.
DeepSymbols ==
    { [ name     |-> Some(SymbolNameNew(<<"m", "n">>)),
        addr     |-> Some(Ptr(16)),
        filename |-> Some(PathRef(<<"b", ".", "r", "s">>)),
        lineno   |-> Some(12) ],
      [ name |-> None, addr |-> None, filename |-> None, lineno |-> None ] }

\* A walk of DeepFrames unresolved frames and then a frame with two symbols.
DeepStacks ==
    { [k \in 1..DeepFrames |->
          [frame |-> [ip |-> Ptr(1), symbol_address |-> Ptr(0)],
           syms |-> << >>]]
      \o << [frame |-> [ip |-> Ptr(255), symbol_address |-> Ptr(16)],
             syms |-> <<s1, s2>>] >> :
      s1 \in DeepSymbols, s2 \in DeepSymbols }

\* A deep stack has been captured and nothing has been formatted yet.
InitDeep ==
    /\ \E stack \in DeepStacks : Captured(stack)
    /\ usizeBytes \in TargetUsizeBytes
    /\ FmtIdle

SpecDeep == InitDeep /\ [][NextFmt]_vars

\* ------------------------------------------------- claims on capture
\* The owned symbol s reads back, through the accessors, as the live
\* symbol the resolver delivered.
ReadsBackAs(s, live) ==
    /\ SymName(s) = live.name
    /\ SymAddr(s) = live.addr
    /\ SymFilename(s) = live.filename
    /\ SymLineno(s) = live.lineno

\* C1: once Backtrace::new has returned, frames() has as many frames as the
\* unwinder delivered, and frame k is the k-th frame delivered: nothing is
\* reordered, merged or dropped.
C1_FramesInDeliveryOrder ==
    pc = "returned" =>
        /\ Len(Frames(bt)) = Len(delivered)
        /\ \A k \in 1..Len(delivered) :
              /\ FrameIp(Frames(bt)[k]) = delivered[k].ip
              /\ FrameSymbolAddress(Frames(bt)[k]) = delivered[k].symbol_address

\* Two frames with the same ip were delivered and the capture has returned.
C1_Witness ==
    /\ pc = "returned"
    /\ Len(delivered) = 2
    /\ delivered[1].ip = delivered[2].ip
    /\ Len(Frames(bt)) = 2

\* C2: the resolver is called once per delivered frame, on that frame's ip,
\* and once the capture has returned frame k holds exactly the symbols of
\* the k-th resolver call, in delivery order.
C2_SymbolsPerFrame ==
    /\ Len(resolveCalls) = Len(delivered)
    /\ Len(resolved) = Len(delivered)
    /\ \A k \in 1..Len(delivered) : resolveCalls[k] = delivered[k].ip
    /\ pc = "returned" =>
          \A k \in 1..Len(resolved) :
              /\ k <= Len(Frames(bt))
              /\ Len(Symbols(Frames(bt)[k])) = Len(resolved[k])
              /\ \A m \in 1..Len(resolved[k]) :
                    ReadsBackAs(Symbols(Frames(bt)[k])[m], resolved[k][m])

\* The first frame got a symbol, the second got none.
C2_Witness ==
    /\ pc = "returned"
    /\ Len(resolved) = 2
    /\ Len(resolved[1]) = 1
    /\ resolved[2] = << >>
    /\ Symbols(Frames(bt)[2]) = << >>

\* C3: reading the snapshot back through the accessors gives the values the
\* unwinder and the resolver supplied; each symbol field is present exactly
\* when it was supplied, and a supplied 0 is read back as a present 0.
C3_RoundTrip ==
    pc = "returned" =>
        \A k \in 1..Len(Frames(bt)) :
            LET f == Frames(bt)[k] IN
            /\ k <= Len(delivered)
            /\ FrameIp(f) = delivered[k].ip
            /\ FrameSymbolAddress(f) = delivered[k].symbol_address
            /\ \A m \in 1..Len(Symbols(f)) :
                  LET s == Symbols(f)[m]
                      live == resolved[k][m] IN
                  /\ IsSome(SymName(s)) <=> IsSome(live.name)
                  /\ IsSome(SymAddr(s)) <=> IsSome(live.addr)
                  /\ IsSome(SymFilename(s)) <=> IsSome(live.filename)
                  /\ IsSome(SymLineno(s)) <=> IsSome(live.lineno)
                  /\ ReadsBackAs(s, live)

\* A symbol with line 0 and address 0 but neither name nor file was captured.
C3_Witness ==
    /\ pc = "returned"
    /\ Len(Frames(bt)) >= 1
    /\ Len(resolved[1]) >= 1
    /\ resolved[1][1].lineno = Some(0)
    /\ resolved[1][1].addr = Some(Ptr(0))
    /\ resolved[1][1].name = None
    /\ resolved[1][1].filename = None
    /\ SymLineno(Symbols(Frames(bt)[1])[1]) = Some(0)

\* How far a capture has come: every step of Backtrace::new adds to it.
Progress ==
    Len(delivered) + SumLen(resolved) + Len(answers)
        + (IF pc = "returned" THEN 1 ELSE 0)

\* C9: the visitor answers "continue" for every frame; the capture is never
\* stuck before it returns, every step brings it nearer to returning, and it
\* returns a snapshot holding every delivered frame.
C9_CaptureTotal ==
    /\ [](\A k \in 1..Len(answers) : answers[k])
    /\ [](pc = "returned" \/ ENABLED Next)
    /\ [](pc = "returned" => Len(Frames(bt)) = Len(delivered))
    /\ [](Progress <= 2 * MaxFrames + MaxSymbols + 1)
    /\ [][pc # "returned" => Progress' > Progress]_vars

\* A capture of two frames, neither of which resolved, has returned.
C9_Witness ==
    /\ pc = "returned"
    /\ Len(delivered) = 2
    /\ resolved = << << >>, << >> >>
    /\ answers = <<TRUE, TRUE>>
    /\ Len(Frames(bt)) = 2

\* ------------------------------------------------- reading the text
\* The lines of a text, each without the line break that ends it.
Lines(text) ==
    LET brk == {k \in 1..Len(text) : text[k] = "\n"}
        Nth(n) == CHOOSE k \in brk : Cardinality({b \in brk : b < k}) = n - 1
    IN  [n \in 1..Cardinality(brk) |->
            SubSeq(text, IF n = 1 THEN 1 ELSE Nth(n - 1) + 1, Nth(n) - 1)]

\* Every line of the text is ended by a line break.
Terminated(text) == text = << >> \/ text[Len(text)] = "\n"

StartsWith(t, p) == Len(t) >= Len(p) /\ SubSeq(t, 1, Len(p)) = p

EndsWith(t, p) ==
    Len(t) >= Len(p) /\ SubSeq(t, Len(t) - Len(p) + 1, Len(t)) = p

\* The number of spaces a line starts with.
LeadingSpaces(t) ==
    CHOOSE n \in 0..Len(t) :
        /\ \A k \in 1..n : t[k] = " "
        /\ n = Len(t) \/ t[n + 1] # " "

\* A line without the spaces it starts with.
Stripped(t) == SubSeq(t, LeadingSpaces(t) + 1, Len(t))

\* The symbol has both a file and a line number.
BothFileAndLine(s) == IsSome(SymFilename(s)) /\ IsSome(SymLineno(s))

\* The lines a symbol is expected to take: its entry, and the file and line
\* if it has both.
LinesOfSymbol(s) == IF BothFileAndLine(s) THEN 2 ELSE 1

RECURSIVE LinesOfSymbols(_)
LinesOfSymbols(ss) ==
    IF ss = << >> THEN 0 ELSE LinesOfSymbol(ss[1]) + LinesOfSymbols(Tail(ss))

\* The symbols of the frames fs, each as <<frame position, symbol position>>.
SymbolSlots(fs) ==
    UNION { { <<k, m>> : m \in 1..Len(Symbols(fs[k])) } : k \in 1..Len(fs) }

\* The lines the frames fs are expected to take: one per frame without
\* symbols, one per symbol, one more per symbol with both file and line.
LinesOfFrames(fs) ==
    Cardinality({k \in 1..Len(fs) : Symbols(fs[k]) = << >>})
    + Cardinality(SymbolSlots(fs))
    + Cardinality({km \in SymbolSlots(fs) :
                      BothFileAndLine(Symbols(fs[km[1]])[km[2]])})

\* The line on which frame k (from 1) is expected to start.
FirstLine(k) == 1 + LinesOfFrames(SubSeq(Frames(bt), 1, k - 1))

\* The line on which the entry of symbol m (from 1) of frame k is expected.
EntryLine(k, m) ==
    FirstLine(k) + LinesOfSymbols(SubSeq(Symbols(Frames(bt)[k]), 1, m - 1))

\* The entry expected for a symbol: its name, or the placeholder.
ExpectedEntry(s) ==
    IF IsSome(SymName(s))
    THEN <<" ", "-", " ">> \o DisplayName(SymName(s)[1])
    ELSE <<" ", "-", " ", "<", "u", "n", "k", "n", "o", "w", "n", ">">>

\* The frames and symbols of the snapshot, by position.
FrameIndexes == 1..Len(Frames(bt))

SymbolIndexes(k) == 1..Len(Symbols(Frames(bt)[k]))

\* A call of fmt has returned Ok.
ReturnedOk == fpc = "idle" /\ result = "Ok"

\* ------------------------------------------------ claims on Debug::fmt
\* C4: formatting a snapshot without frames writes nothing and returns Ok;
\* a frame without symbols takes exactly one line, its header followed by
\* " - <no info>", and the next frame follows on the next line.
C4_EmptyCases ==
    /\ Frames(bt) = << >> =>
          /\ sink = << >>
          /\ writes = 0
          /\ result # "Err"
          /\ fpc = "idle" /\ result # "none" => result = "Ok"
    /\ ReturnedOk =>
          LET L == Lines(sink) IN
          /\ Terminated(sink)
          /\ Len(L) = LinesOfFrames(Frames(bt))
          /\ \A k \in FrameIndexes :
                Symbols(Frames(bt)[k]) = << >> =>
                    /\ L[FirstLine(k)]
                         = FrameHeader(k - 1, Frames(bt)[k]) \o <<" ", "-", " ", "<", "n", "o", " ", "i", "n", "f", "o", ">">>
                    /\ k < Len(Frames(bt)) =>
                          StartsWith(L[FirstLine(k) + 1],
                                     <<"f", "r", "a", "m", "e", " ", "#">> \o Decimal(k))

\* A frame without symbols, followed by another frame, has been formatted.
C4_Witness ==
    /\ ReturnedOk
    /\ Len(Frames(bt)) = 2
    /\ Symbols(Frames(bt)[1]) = << >>
    /\ Len(Lines(sink)) >= 2

\* C6: the "@ <file>:<line>" line of a symbol is written exactly when the
\* symbol has both a file and a line; otherwise the symbol takes one line,
\* which ends with its entry, and no "@" line follows it.
C6_FileLineOnlyTogether ==
    ReturnedOk =>
        LET L == Lines(sink) IN
        /\ Terminated(sink)
        /\ Len(L) = LinesOfFrames(Frames(bt))
        /\ Cardinality({n \in 1..Len(L) :
                           StartsWith(Stripped(L[n]), <<"@">>)})
             = Cardinality({km \in SymbolSlots(Frames(bt)) :
                               BothFileAndLine(
                                   Symbols(Frames(bt)[km[1]])[km[2]])})
        /\ \A k \in FrameIndexes : \A m \in SymbolIndexes(k) :
              LET s == Symbols(Frames(bt)[k])[m]
                  n == EntryLine(k, m) IN
              /\ EndsWith(L[n], ExpectedEntry(s))
              /\ BothFileAndLine(s) =>
                    Stripped(L[n + 1])
                      = <<"@", " ">> \o DisplayPath(SymFilename(s)[1])
                          \o <<":">> \o Decimal(SymLineno(s)[1])
              /\ ~BothFileAndLine(s) /\ n < Len(L) =>
                    ~StartsWith(Stripped(L[n + 1]), <<"@">>)

\* A symbol with a file but no line and a symbol with both were formatted.
C6_Witness ==
    /\ ReturnedOk
    /\ Len(Frames(bt)) = 1
    /\ Len(Symbols(Frames(bt)[1])) = 2
    /\ IsSome(SymFilename(Symbols(Frames(bt)[1])[1]))
    /\ ~IsSome(SymLineno(Symbols(Frames(bt)[1])[1]))
    /\ BothFileAndLine(Symbols(Frames(bt)[1])[2])
    /\ Len(Lines(sink)) = 3

\* C7: fmt returns an error exactly when a write to the sink failed: the
\* failing write ends the call at once with Err and nothing more is written
\* during that call; a call no write of which fails returns Ok after the
\* last frame; the snapshot is never changed.
C7_ErrorIffWriteFailed ==
    /\ [](result = "Err" <=> ~sinkOk)
    /\ [](~sinkOk => fpc = "idle")
    /\ [](ReturnedOk =>
            LET L == Lines(sink) IN
            /\ i = Len(Frames(bt))
            /\ Cardinality({n \in 1..Len(L) :
                               StartsWith(L[n], <<"f", "r", "a", "m", "e", " ", "#">>)})
                 = Len(Frames(bt)))
    /\ [][~sinkOk /\ ~sinkOk' => writes' = writes /\ sink' = sink]_vars
    /\ [][bt' = bt]_vars

\* A write failed after earlier writes of the same call had succeeded.
C7_Witness ==
    /\ fpc = "idle"
    /\ result = "Err"
    /\ ~sinkOk
    /\ writes >= 3
    /\ sink # << >>
    /\ i < Len(Frames(bt))

\* C8: the calls of fmt on one snapshot that return Ok all wrote the same
\* text, and no call changes the snapshot.
C8_Deterministic ==
    /\ [](Cardinality(texts) <= 1)
    /\ [](ReturnedOk => sink \in texts)
    /\ [][bt' = bt /\ usizeBytes' = usizeBytes]_vars

\* A second call, on a snapshot with frames, has written every frame again.
C8_Witness ==
    /\ fpc = "frame"
    /\ result = "running"
    /\ texts # {}
    /\ Len(Frames(bt)) = 2
    /\ i = Len(Frames(bt))
    /\ sink \in texts

\* C10: with a sink that does not fail the text has one header per frame, in
\* frame order, numbered from 0; one entry per symbol, in symbol order, with
\* the name or " - <unknown>"; and as many lines as there are frames without
\* symbols, symbols, and symbols with both file and line.
C10_NothingOmitted ==
    ReturnedOk =>
        LET fs == Frames(bt)
            L == Lines(sink)
            heads == {n \in 1..Len(L) : StartsWith(L[n], <<"f", "r", "a", "m", "e", " ", "#">>)} IN
        /\ Terminated(sink)
        /\ Len(L)
             = Cardinality({k \in FrameIndexes : Symbols(fs[k]) = << >>})
               + Cardinality(SymbolSlots(fs))
               + Cardinality({km \in SymbolSlots(fs) :
                                 BothFileAndLine(Symbols(fs[km[1]])[km[2]])})
        /\ heads = {FirstLine(k) : k \in FrameIndexes}
        /\ Cardinality(heads) = Len(fs)
        /\ \A k \in FrameIndexes :
              StartsWith(L[FirstLine(k)], <<"f", "r", "a", "m", "e", " ", "#">> \o Decimal(k - 1) \o <<" ">>)
        /\ \A k \in FrameIndexes : \A m \in SymbolIndexes(k) :
              LET line == L[EntryLine(k, m)]
                  entry == ExpectedEntry(Symbols(fs[k])[m])
                  before == SubSeq(line, 1, Len(line) - Len(entry)) IN
              /\ EndsWith(line, entry)
              /\ IF m = 1 THEN StartsWith(before, <<"f", "r", "a", "m", "e", " ", "#">>)
                 ELSE before = Spaces(Len(before))

\* Two frames were formatted: one with a nameless symbol, one without symbols.
C10_Witness ==
    /\ ReturnedOk
    /\ Len(Frames(bt)) = 2
    /\ Len(Symbols(Frames(bt)[1])) = 1
    /\ ~IsSome(SymName(Symbols(Frames(bt)[1])[1]))
    /\ Symbols(Frames(bt)[2]) = << >>
    /\ Len(Lines(sink)) >= 2

\* C5: in every frame with several symbols, the entry of each symbol after
\* the first is indented by as many spaces as the header written for that
\* frame is long, so that it starts in the column where the first entry
\* starts; and the "@" of a file-and-line line stands under the "-" of its
\* entry.
C5_IndentMatchesHeader ==
    ReturnedOk =>
        LET L == Lines(sink) IN
        /\ Terminated(sink)
        /\ Len(L) = LinesOfFrames(Frames(bt))
        /\ \A k \in FrameIndexes : \A m \in SymbolIndexes(k) :
              LET ss == Symbols(Frames(bt)[k])
                  head == L[FirstLine(k)]
                  headerLen == Len(head) - Len(ExpectedEntry(ss[1]))
                  line == L[EntryLine(k, m)]
                  indent == Len(line) - Len(ExpectedEntry(ss[m])) IN
              /\ m >= 2 =>
                    /\ indent = headerLen
                    /\ SubSeq(line, 1, indent) = Spaces(indent)
              /\ BothFileAndLine(ss[m]) =>
                    LeadingSpaces(L[EntryLine(k, m) + 1])
                      = indent + 1

=============================================================================
